---- MODULE Spec2Model ----
(***************************************************************************)
(* Model of the dispatch engine of send.py (class EmailManager):           *)
(* the recipient-list cursor, the session rows, the log rows, the send     *)
(* loop of send_bulk_emails with its pause / probe / checkpoint steps, and *)
(* the SIGINT handler installed by send_bulk_emails.                       *)
(*                                                                         *)
(* The SQLite tables are the durable variables (last_position, sessions,   *)
(* email_logs); everything else belongs to one operating-system process    *)
(* and is lost when the process ends.  Positions are 0-based as in the     *)
(* source; a recipient is identified by the 0-based index of its line in   *)
(* the recipient file.                                                     *)
(*                                                                         *)
(* Specifications: Spec (processes one after the other), SpecMain (one     *)
(* process as main() runs it), SpecFault (SpecMain with store writes that  *)
(* fail), SpecBatch (SpecMain on a list of more than two checkpoint        *)
(* batches), SpecTwo (SpecMain with a second process on the same list),    *)
(* SpecPure (select_random_item, create_email_content and                  *)
(* get_emails_from_list called on their own), SpecPools (construction,     *)
(* add_template / add_subject / add_from_line and start_session on any     *)
(* variant tables), SpecRun (a run that nothing interrupts, with weak      *)
(* fairness of its statements) and SpecTest (SpecRun's steps and the test  *)
(* command).                                                               *)
(***************************************************************************)
EXTENDS Integers, Sequences, FiniteSets, TLC

\* ---------------------------------------------------------------- bounds
MaxLines == 3            \* longest recipient file
MaxInvalid == 1          \* most invalid lines in a recipient file
MaxSessions == 2         \* most rows of the sessions table
MaxProcs == 2            \* most processes (EmailManager constructions)
MaxFailures == 1         \* most transport failures of ordinary sends
MaxProbeFailures == 1    \* most probes the transport refuses
MaxStoreFaults == 1      \* most store writes that fail (SpecFault)
MaxRows == 1             \* most rows of a variant table before the program runs
MaxAdds == 2             \* most add_template / add_subject / add_from_line calls
MaxPool == 2             \* most variants in a pool given to select_random_item
MaxWeight == 3           \* largest weight of a variant
DrawsPerUnit == 2        \* values of random.uniform tried per unit of weight
MaxContentLen == 2       \* most tokens in a template's content
MaxValueLen == 1         \* most tokens before the '@' of a recipient
MaxLineLen == 2          \* most characters in a line of a recipient file
MaxTextLines == 2        \* most lines of a recipient file given as text
LongLines == 21          \* lines of the long recipient file (SpecBatch)

\* ----------------------------------------------------- input values tried
Limits == {0, 1}         \* values of max_emails tried, 0 is None
PauseAfterValues == {0, 1, 2} \* values of pause_after tried (default 100)
TestRecipientCounts == {0, 1} \* lengths of test_email_recipients tried
TestIntervals == {2}     \* values of config["test_interval"] tried (default 50)
PauseDurations == {2000} \* values of pause_duration tried (default 300)
Delays == {1}            \* values of delay_between_emails tried (default 1)

\* ------------------------------------------------------ program constants
CheckpointEvery == 10    \* "if (i + 1) % 10 == 0"
ListId == 1              \* list_id of the one row of email_lists
ListName == "Clients"    \* name of that row

LineKinds == {"addr", "blank", "junk"}
Terminal == {"COMPLETED", "INTERRUPTED", "FAILED"}

VARIABLES
    \* the recipient file and config.json (fixed for a behaviour)
    file,                 \* sequence of line kinds
    total_emails,         \* email_lists.total_emails, counted by add_email_list
    pause_after,          \* self.pause_after
    test_interval,        \* config["test_interval"]
    enable_test_emails,   \* config["enable_test_emails"]
    test_email_recipients,\* length of config["test_email_recipients"]
    pause_duration,       \* self.pause_duration, seconds
    delay_between_emails, \* self.delay, seconds
    \* the database
    last_position,        \* email_lists.last_position
    sessions,             \* rows of sessions, session_id = index
    email_logs,           \* rows of email_logs, in insertion order
    \* the running process
    pc,                   \* where the process is; "none" = no process
    cached_position,      \* self.email_lists[0]['last_position']
    handler,              \* TRUE once signal.signal(SIGINT, signal_handler) ran
    \* locals of the send_bulk_emails call whose closure the handler holds
    session_id, resume, max_emails, start_position, emails, i,
    sent_count, failed_count, current_position,
    result,               \* outcome of sendmail, then what send_email returned
    \* what the transport and the operator observed
    probes,               \* send_test_email submissions, in order
    pauses,               \* counts i+1 at which this run entered a pause
    run_sub,              \* lines submitted by the current / latest run
    prev_sub,             \* lines submitted by the run before it
    run_end,              \* how the latest run ended
    prev_end,             \* how the run before it ended
    run_start,            \* start_position of the current / latest run
    prev_start,           \* start_position of the run before it
    sig_pc,               \* pc at which SIGINT was delivered to this process
    procs,                \* processes started so far
    event,                \* name of the last step
    since_probe,          \* seconds slept since the last probe / session start
    \* the store (sqlite3) as the process sees it
    store_budget,         \* failing store writes still to come
    store_failed,         \* TRUE once a store write of the process has failed
    \* one call of a function of EmailManager and what it gave
    call, ret,
    \* the variant tables and self.templates / self.subjects / self.from_lines
    pools,
    \* a second "send" process on the same list
    other_pc, other_session, other_start, other_emails, other_i, other_sub

dbvars == <<last_position, sessions, email_logs>>
cfgvars == <<file, total_emails, pause_after, test_interval,
             enable_test_emails, test_email_recipients, pause_duration,
             delay_between_emails>>
locals == <<session_id, resume, max_emails, start_position, emails, i,
            sent_count, failed_count, current_position, result>>
histvars == <<probes, pauses, run_sub, prev_sub, run_end, prev_end>>
startvars == <<run_start, prev_start>>
faultvars == <<store_budget, store_failed>>
purevars == <<call, ret, pools>>
othervars == <<other_pc, other_session, other_start, other_emails, other_i,
               other_sub>>
auxvars == <<since_probe, faultvars, purevars, othervars>>
vars == <<cfgvars, dbvars, pc, cached_position, handler, locals, histvars,
          startvars, sig_pc, procs, event, auxvars>>

\* pcs inside the for loop of send_bulk_emails (pause wait included)
LoopPcs == {"iter", "send", "log", "count", "stats", "probe", "pausewait",
            "delay"}
\* pcs after the loop, before send_bulk_emails returns
FinalPcs == {"final_stats", "final_probe", "show"}
RunPcs == LoopPcs \cup FinalPcs

\* ------------------------------------------------------------- recipients
\* "if email and '@' in email" after line.strip()
IsValid(kind) == kind = "addr"

RECURSIVE CountValid(_)
\* add_email_list: number of lines that are non-empty and contain '@'
CountValid(f) ==
    IF f = <<>> THEN 0
    ELSE (IF IsValid(Head(f)) THEN 1 ELSE 0) + CountValid(Tail(f))

RECURSIVE ScanLines(_, _, _, _, _)
\* the "for i, line in enumerate(f)" loop of get_emails_from_list:
\* n is the 0-based line index, acc the emails collected so far
ScanLines(f, n, start, limit, acc) ==
    IF n >= Len(f) THEN acc
    ELSE IF n < start THEN ScanLines(f, n + 1, start, limit, acc)
    ELSE LET acc2 == IF IsValid(f[n + 1]) THEN Append(acc, n) ELSE acc
         IN  IF limit # 0 /\ Len(acc2) >= limit THEN acc2
             ELSE ScanLines(f, n + 1, start, limit, acc2)

\* get_emails_from_list(list_id, start_position, limit); limit 0 is None
get_emails_from_list(f, start, limit) == ScanLines(f, 0, start, limit, <<>>)

Range(s) == {s[k] : k \in 1..Len(s)}

Files == UNION {[1..n -> LineKinds] : n \in 0..MaxLines}
FileSet == {f \in Files :
              Cardinality({k \in 1..Len(f) : ~IsValid(f[k])}) <= MaxInvalid}

\* --------------------------------------------------------------- database
\* start_session's INSERT INTO sessions
NewSession == [status |-> "STARTED", sent_emails |-> 0, failed_emails |-> 0,
               total_emails |-> 0, end_time |-> FALSE]

\* update_session_stats: UPDATE sessions SET sent, failed, status, end_time
update_session_stats(S, sid, sent, failed, status) ==
    [S EXCEPT ![sid] = [@ EXCEPT !.sent_emails = sent,
                                 !.failed_emails = failed,
                                 !.status = status,
                                 !.end_time = TRUE]]

\* update_list_position: UPDATE email_lists SET last_position = position
update_list_position(position) == position

\* ------------------------------------------------------------------ pools
\* the three variant tables, and the attribute of EmailManager each is
\* loaded into
PoolNames == {"templates", "subjects", "from_lines"}

\* how many default variants load_templates, load_subjects and
\* load_from_lines insert
DefaultTemplates == 3
DefaultSubjects == 5
DefaultFroms == 4

\* a table is the sequence of the is_active values of its rows, the rowid
\* being the index
Tables == UNION {[1..n -> BOOLEAN] : n \in 0..MaxRows}

RECURSIVE ActiveUpTo(_, _)
ActiveUpTo(rows, k) ==
    IF k = 0 THEN <<>>
    ELSE ActiveUpTo(rows, k - 1) \o (IF rows[k] THEN <<k>> ELSE <<>>)

\* "SELECT ... WHERE is_active = 1": the rowids of the active rows
SelectActive(rows) == ActiveUpTo(rows, Len(rows))

\* n INSERTs that name no is_active: the column defaults to 1
Inserted(rows, n) == rows \o [k \in 1..n |-> TRUE]

\* load_templates without the default templates
load_templates_nodefaults(rows) ==
    [rows |-> rows, items |-> SelectActive(rows)]

\* load_templates: COUNT(*) of the active rows, the defaults when it is 0,
\* then the active rows
load_templates(rows) ==
    LET count == Len(SelectActive(rows))
        rows2 == IF count = 0 THEN Inserted(rows, DefaultTemplates) ELSE rows
    IN  [rows |-> rows2, items |-> SelectActive(rows2)]

RECURSIVE load_subjects(_)
\* load_subjects: the active rows; when there are none, the defaults and
\* load_subjects again
load_subjects(rows) ==
    LET subjects == SelectActive(rows)
    IN  IF subjects = <<>>
        THEN load_subjects(Inserted(rows, DefaultSubjects))
        ELSE [rows |-> rows, items |-> subjects]

RECURSIVE load_from_lines(_)
\* load_from_lines: as load_subjects
load_from_lines(rows) ==
    LET from_lines == SelectActive(rows)
    IN  IF from_lines = <<>>
        THEN load_from_lines(Inserted(rows, DefaultFroms))
        ELSE [rows |-> rows, items |-> from_lines]

\* the tables db with nothing loaded and no add_* call made
Unloaded(db) ==
    [db |-> db, templates |-> <<>>, subjects |-> <<>>, from_lines |-> <<>>,
     adds |-> 0]

\* a database whose variant tables are empty
NoPools == Unloaded([p \in PoolNames |-> <<>>])

\* load_configuration, lines 173-179: the three loads in this order
load_pools(P) ==
    LET t == load_templates(P.db.templates)
        s == load_subjects(P.db.subjects)
        f == load_from_lines(P.db.from_lines)
    IN  [db |-> [templates |-> t.rows, subjects |-> s.rows,
                 from_lines |-> f.rows],
         templates |-> t.items, subjects |-> s.items,
         from_lines |-> f.items, adds |-> P.adds]

\* ------------------------------------------------------------------- init
\* no function has been called on its own
NoCall == [fn |-> "none"]

\* no second process has been started
OtherIdle ==
    /\ other_pc = "none"
    /\ other_session = 0
    /\ other_start = 0
    /\ other_emails = <<>>
    /\ other_i = 0
    /\ other_sub = {}

\* D: the variant tables the database may hold
InitOn(D) ==
    /\ file \in FileSet
    /\ total_emails = CountValid(file)
    /\ pause_after \in PauseAfterValues
    /\ test_interval \in TestIntervals
    /\ enable_test_emails = TRUE
    /\ test_email_recipients \in TestRecipientCounts
    /\ pause_duration \in PauseDurations
    /\ delay_between_emails \in Delays
    /\ last_position = 0
    /\ sessions = <<>>
    /\ email_logs = <<>>
    /\ pc = "none"
    /\ cached_position = 0
    /\ handler = FALSE
    /\ session_id = 0
    /\ resume = TRUE
    /\ max_emails = 0
    /\ start_position = 0
    /\ emails = <<>>
    /\ i = 0
    /\ sent_count = 0
    /\ failed_count = 0
    /\ current_position = 0
    /\ result = "none"
    /\ probes = <<>>
    /\ pauses = {}
    /\ run_sub = {}
    /\ prev_sub = {}
    /\ run_end = "none"
    /\ prev_end = "none"
    /\ run_start = 0
    /\ prev_start = 0
    /\ sig_pc = "none"
    /\ procs = 0
    /\ event = "init"
    /\ since_probe = 0
    /\ store_budget = 0
    /\ store_failed = FALSE
    /\ call = NoCall
    /\ ret = NoCall
    /\ pools \in {Unloaded(db) : db \in D}
    /\ OtherIdle

\* a database created by init_databases: the variant tables are empty
Init == InitOn({NoPools.db})

\* ---------------------------------------------------------------- process
\* main(): manager = EmailManager("config"); load_email_lists caches the
\* cursor of every list in self.email_lists
EmailManager_init ==
    /\ pc = "none"
    /\ procs < MaxProcs
    /\ procs' = procs + 1
    /\ cached_position' = last_position
    /\ handler' = FALSE
    /\ pc' = "idle"
    /\ session_id' = 0 /\ resume' = TRUE /\ max_emails' = 0
    /\ start_position' = 0 /\ emails' = <<>> /\ i' = 0
    /\ sent_count' = 0 /\ failed_count' = 0 /\ current_position' = 0
    /\ result' = "none"
    /\ sig_pc' = "none"
    /\ event' = "init_manager"
    /\ pools' = load_pools(pools)
    /\ UNCHANGED <<cfgvars, dbvars, histvars, startvars, since_probe,
                   faultvars, call, ret, othervars>>

\* start_session(list_id): the list it resolves; 0 stands for None.
\* "if list_id:" looks the id up, otherwise the first list is used.
start_session_finds(lid) == IF lid # 0 THEN lid = ListId ELSE TRUE

\* send_bulk_emails, lines 675-716: start_session, the list lookup, the
\* start position, the slice, the locals and the SIGINT handler
send_bulk_emails(lid, limit, res) ==
    /\ pc = "idle"
    /\ Len(sessions) < MaxSessions
    /\ IF ~start_session_finds(lid)
       THEN \* start_session returned None: no session row
            /\ event' = "no_session"
            /\ UNCHANGED <<dbvars, pc, handler, locals, histvars,
                           startvars, since_probe>>
       ELSE /\ sessions' = Append(sessions, NewSession)
            /\ UNCHANGED <<last_position, email_logs>>
            /\ IF lid # ListId
               THEN \* "Liste d'emails non trouvee": list_id is None
                    /\ event' = "list_not_found"
                    /\ UNCHANGED <<pc, handler, locals, histvars,
                                   startvars, since_probe>>
               ELSE LET sp == IF res THEN cached_position ELSE 0
                        em == get_emails_from_list(file, sp, limit)
                    IN  IF Len(em) = 0
                        THEN \* "Aucun email a envoyer"
                             /\ event' = "no_emails"
                             /\ UNCHANGED <<pc, handler, locals, histvars,
                                            startvars, since_probe>>
                        ELSE /\ session_id' = Len(sessions) + 1
                             /\ resume' = res
                             /\ max_emails' = limit
                             /\ start_position' = sp
                             /\ emails' = em
                             /\ i' = 0
                             /\ sent_count' = 0
                             /\ failed_count' = 0
                             /\ current_position' = sp
                             /\ result' = "none"
                             /\ handler' = TRUE
                             /\ pc' = "iter"
                             /\ pauses' = {}
                             /\ prev_sub' = run_sub
                             /\ prev_end' = run_end
                             /\ run_sub' = {}
                             /\ run_end' = "running"
                             /\ prev_start' = run_start
                             /\ run_start' = sp
                             /\ UNCHANGED probes
                             /\ since_probe' = 0
                             /\ event' = "start_run"
    /\ UNCHANGED <<cfgvars, cached_position, sig_pc, procs, faultvars,
                   purevars, othervars>>

\* main(), lines 1095-1106, for "send [--list-id ID] [--list-name NAME]
\* [--max N] [--no-resume]": args.list_name is parsed (line 1055) and not
\* passed on; "None" stands for an option that was not given
main_send(list_id, list_name, limit, res) ==
    send_bulk_emails(list_id, limit, res)

\* values of --list-name tried
ListNames == {"None", ListName}

\* lines 718-725: the loop takes the next email and advances
\* current_position before anything is sent
IterBegin ==
    /\ pc = "iter"
    /\ i < Len(emails)
    /\ current_position' = start_position + i + 1
    /\ pc' = "send"
    /\ event' = "iter"
    /\ UNCHANGED <<cfgvars, dbvars, cached_position, handler, session_id,
                   resume, max_emails, start_position, emails, i, sent_count,
                   failed_count, result, histvars, sig_pc, procs,
                   startvars, auxvars>>

FailedLogs == Cardinality({k \in 1..Len(email_logs) :
                             email_logs[k].status = "FAILED"})

\* what running sendmail can give: return code 0, a non-zero return code,
\* an exception of Popen / communicate
Outcomes == {"SUCCESS", "FAILED", "EXCEPTION"}

\* send_email, lines 541-555: sendmail is run on the rendered message; a
\* non-zero return code or an exception is a failure
Submit ==
    /\ pc = "send"
    /\ \E out \in Outcomes :
         /\ out = "SUCCESS" \/ FailedLogs < MaxFailures
         /\ result' = out
    /\ run_sub' = run_sub \cup {emails[i + 1]}
    /\ pc' = "log"
    /\ event' = "submit"
    /\ UNCHANGED <<cfgvars, dbvars, cached_position, handler, session_id,
                   resume, max_emails, start_position, emails, i, sent_count,
                   failed_count, current_position, probes, pauses, prev_sub,
                   run_end, prev_end, sig_pc, procs,
                   startvars, auxvars>>

\* the row send_email inserts: status and error_message ("stderr" of
\* sendmail, "exception" for str(e), "none" for NULL)
LogRow(sid, email, status, error_message) ==
    [session_id |-> sid, email |-> email, status |-> status,
     error_message |-> error_message]

\* lines 554-564: the row of the try block
TryRow(sid, email, out) ==
    IF out = "SUCCESS" THEN LogRow(sid, email, "SUCCESS", "none")
    ELSE LogRow(sid, email, "FAILED", "stderr")

\* lines 580-585: the row of the except block
ExceptRow(sid, email) == LogRow(sid, email, "FAILED", "exception")

\* how a store write of send_email can go: "none" every statement works;
\* "execute" the INSERT of the try block raises and the except block's row is
\* stored; "commit" the commit of the try block raises, the except block
\* inserts its row and its commit stores both; "raise" the INSERT or commit
\* of the except block raises and the exception leaves send_email
StoreFaults == {"none", "execute", "commit", "raise"}

\* send_email, lines 557-588: INSERT INTO email_logs, commit, and the value
\* returned (result "SUCCESS" for True); an exception that leaves send_email
\* is caught at line 1173 and the process ends
LogWrite ==
    /\ pc = "log"
    /\ \E fault \in StoreFaults :
         /\ fault = "none" \/ store_budget > 0
         /\ fault \in {"execute", "commit"} => result # "EXCEPTION"
         /\ email_logs' =
              CASE fault = "none" ->
                     Append(email_logs,
                            IF result = "EXCEPTION"
                            THEN ExceptRow(session_id, emails[i + 1])
                            ELSE TryRow(session_id, emails[i + 1], result))
                [] fault = "execute" ->
                     Append(email_logs, ExceptRow(session_id, emails[i + 1]))
                [] fault = "commit" ->
                     email_logs \o <<TryRow(session_id, emails[i + 1], result),
                                     ExceptRow(session_id, emails[i + 1])>>
                [] fault = "raise" -> email_logs
         /\ result' = IF fault = "none" THEN result ELSE "EXCEPTION"
         /\ store_budget' = IF fault = "none" THEN store_budget
                            ELSE store_budget - 1
         /\ store_failed' = (store_failed \/ fault # "none")
         /\ pc' = IF fault = "raise" THEN "none" ELSE "count"
         /\ run_end' = IF fault = "raise" THEN "error" ELSE run_end
         /\ event' = IF fault = "raise" THEN "store_error" ELSE "log"
    /\ UNCHANGED <<cfgvars, last_position, sessions, cached_position, handler,
                   session_id, resume, max_emails, start_position, emails, i,
                   sent_count, failed_count, current_position, probes, pauses,
                   run_sub, prev_sub, prev_end, sig_pc, procs,
                   startvars, since_probe, purevars, othervars>>

\* Count with every outcome counted as sent
Count_all_sent ==
    /\ pc = "count"
    /\ sent_count' = sent_count + 1
    /\ failed_count' = failed_count
    /\ pc' = "stats"
    /\ event' = "count"
    /\ UNCHANGED <<cfgvars, dbvars, cached_position, handler, session_id,
                   resume, max_emails, start_position, emails, i,
                   current_position, result, histvars, sig_pc, procs,
                   startvars, auxvars>>

\* lines 727-731: the counters follow the value send_email returned, which
\* stays in "success" until the next iteration
Count ==
    /\ pc = "count"
    /\ sent_count' = IF result = "SUCCESS" THEN sent_count + 1 ELSE sent_count
    /\ failed_count' = IF result = "SUCCESS" THEN failed_count
                       ELSE failed_count + 1
    /\ pc' = "stats"
    /\ event' = "count"
    /\ UNCHANGED <<cfgvars, dbvars, cached_position, handler, session_id,
                   resume, max_emails, start_position, emails, i,
                   current_position, result, histvars, sig_pc, procs,
                   startvars, auxvars>>

\* PauseDue without the "(i + 1) < total_emails" test
PauseDueAlsoAfterLast(p, n, total) == p > 0 /\ n % p = 0

\* line 738: the pause condition after the (n)th processed recipient of a
\* slice of total recipients
PauseDue(p, n, total) == p > 0 /\ n % p = 0 /\ n < total

\* a store write of send_bulk_emails (update_session_stats,
\* update_list_position) that either works, and the run goes on at next_pc,
\* or raises: nothing in send_bulk_emails catches the exception, line 1173
\* prints it and the process ends
StoreWrite(fails, next_pc, ev) ==
    /\ fails => store_budget > 0
    /\ pc' = IF fails THEN "none" ELSE next_pc
    /\ event' = IF fails THEN "store_error" ELSE ev
    /\ run_end' = IF fails THEN "error" ELSE run_end
    /\ store_budget' = IF fails THEN store_budget - 1 ELSE store_budget
    /\ store_failed' = (store_failed \/ fails)

\* CheckpointDue for a loop that never checkpoints
CheckpointDue_never(n) == FALSE

\* line 734: "if (i + 1) % 10 == 0", n being i + 1
CheckpointDue(n) == n % CheckpointEvery = 0

\* lines 734-740: the checkpoint of every 10th recipient, then the pause test
Checkpoint ==
    /\ pc = "stats"
    /\ \E fails \in BOOLEAN :
         /\ fails => CheckpointDue(i + 1)
         /\ sessions' = IF CheckpointDue(i + 1) /\ ~fails
                        THEN update_session_stats(sessions, session_id,
                                                  sent_count, failed_count,
                                                  "RUNNING")
                        ELSE sessions
         /\ IF PauseDue(pause_after, i + 1, Len(emails)) /\ ~fails
            THEN pauses' = pauses \cup {i + 1}
            ELSE pauses' = pauses
         /\ StoreWrite(fails,
                       IF PauseDue(pause_after, i + 1, Len(emails))
                       THEN "probe" ELSE "delay",
                       "checkpoint")
    /\ UNCHANGED <<cfgvars, last_position, email_logs, cached_position,
                   handler, locals, probes, run_sub, prev_sub,
                   prev_end, sig_pc, procs,
                   startvars, since_probe, purevars, othervars>>

\* probes the transport has refused so far
FailedProbes == Cardinality({n \in 1..Len(probes) : ~probes[n].ok})

\* send_test_email(session_id, sent, failed, is_final): one message per test
\* recipient; ok is what sendmail answered, which is only written to the
\* text log (lines 895-904)
send_test_email(P, sid, n, sent, failed, is_final, ok) ==
    IF test_email_recipients = 0 THEN P
    ELSE Append(P, [session_id |-> sid, at |-> n, sent |-> sent,
                    failed |-> failed, is_final |-> is_final,
                    to |-> test_email_recipients, ok |-> ok])

\* lines 743 and 762: "if self.enable_test_emails and
\* self.test_email_recipients"
ProbeAudience == enable_test_emails /\ test_email_recipients > 0

\* PauseProbe with the probe counted as a sent email of the run
PauseProbe_counted ==
    /\ pc = "probe"
    /\ \E ok \in BOOLEAN :
         /\ ok \/ (ProbeAudience /\ FailedProbes < MaxProbeFailures)
         /\ probes' = IF ProbeAudience
                      THEN send_test_email(probes, session_id, i + 1,
                                           sent_count, failed_count, FALSE, ok)
                      ELSE probes
         /\ sent_count' = IF ProbeAudience /\ ok THEN sent_count + 1
                          ELSE sent_count
         /\ failed_count' = IF ProbeAudience /\ ~ok THEN failed_count + 1
                            ELSE failed_count
    /\ since_probe' = IF ProbeAudience THEN 0 ELSE since_probe
    /\ pc' = "pausewait"
    /\ event' = "pause_probe"
    /\ UNCHANGED <<cfgvars, dbvars, cached_position, handler, session_id,
                   resume, max_emails, start_position, emails, i,
                   current_position, result, pauses,
                   run_sub, prev_sub, run_end, prev_end, sig_pc, procs,
                   startvars, faultvars, purevars, othervars>>

\* lines 742-744: the probe at a pause boundary
PauseProbe ==
    /\ pc = "probe"
    /\ \E ok \in BOOLEAN :
         /\ ok \/ (ProbeAudience /\ FailedProbes < MaxProbeFailures)
         /\ probes' = IF ProbeAudience
                      THEN send_test_email(probes, session_id, i + 1,
                                           sent_count, failed_count, FALSE, ok)
                      ELSE probes
    /\ since_probe' = IF ProbeAudience THEN 0 ELSE since_probe
    /\ pc' = "pausewait"
    /\ event' = "pause_probe"
    /\ UNCHANGED <<cfgvars, dbvars, cached_position, handler, locals, pauses,
                   run_sub, prev_sub, run_end, prev_end, sig_pc, procs,
                   startvars, faultvars, purevars, othervars>>

\* lines 746-752: the countdown of pause_duration seconds
PauseWait ==
    /\ pc = "pausewait"
    /\ since_probe' = since_probe + pause_duration
    /\ pc' = "delay"
    /\ event' = "pause_wait"
    /\ UNCHANGED <<cfgvars, dbvars, cached_position, handler, locals,
                   histvars, sig_pc, procs,
                   startvars, faultvars, purevars, othervars>>

\* line 755: the delay between two emails, then the next iteration
Delay ==
    /\ pc = "delay"
    /\ since_probe' = since_probe + delay_between_emails
    /\ i' = i + 1
    /\ pc' = "iter"
    /\ event' = "delay"
    /\ UNCHANGED <<cfgvars, dbvars, cached_position, handler, session_id,
                   resume, max_emails, start_position, emails, sent_count,
                   failed_count, current_position, result, histvars, sig_pc,
                   procs,
                   startvars, faultvars, purevars, othervars>>

\* FinalPosition writing the position the run started from
FinalPosition_start ==
    /\ pc = "iter"
    /\ i = Len(emails)
    /\ \E fails \in BOOLEAN :
         /\ last_position' = IF fails THEN last_position
                             ELSE update_list_position(start_position)
         /\ StoreWrite(fails, "final_stats", "final_position")
    /\ UNCHANGED <<cfgvars, sessions, email_logs, cached_position, handler,
                   locals, probes, pauses, run_sub, prev_sub, prev_end,
                   sig_pc, procs,
                   startvars, since_probe, purevars, othervars>>

\* line 758: the loop is exhausted, the cursor is committed
FinalPosition ==
    /\ pc = "iter"
    /\ i = Len(emails)
    /\ \E fails \in BOOLEAN :
         /\ last_position' = IF fails THEN last_position
                             ELSE update_list_position(current_position)
         /\ StoreWrite(fails, "final_stats", "final_position")
    /\ UNCHANGED <<cfgvars, sessions, email_logs, cached_position, handler,
                   locals, probes, pauses, run_sub, prev_sub, prev_end,
                   sig_pc, procs,
                   startvars, since_probe, purevars, othervars>>

\* line 759 writing the status of a checkpoint
FinalStats_running ==
    /\ pc = "final_stats"
    /\ \E fails \in BOOLEAN :
         /\ sessions' = IF fails THEN sessions
                        ELSE update_session_stats(sessions, session_id,
                                                  sent_count, failed_count,
                                                  "RUNNING")
         /\ StoreWrite(fails, "final_probe", "final_stats")
    /\ UNCHANGED <<cfgvars, last_position, email_logs, cached_position,
                   handler, locals, probes, pauses, run_sub, prev_sub,
                   prev_end, sig_pc, procs,
                   startvars, since_probe, purevars, othervars>>

\* line 759
FinalStats ==
    /\ pc = "final_stats"
    /\ \E fails \in BOOLEAN :
         /\ sessions' = IF fails THEN sessions
                        ELSE update_session_stats(sessions, session_id,
                                                  sent_count, failed_count,
                                                  "COMPLETED")
         /\ StoreWrite(fails, "final_probe", "final_stats")
    /\ UNCHANGED <<cfgvars, last_position, email_logs, cached_position,
                   handler, locals, probes, pauses, run_sub, prev_sub,
                   prev_end, sig_pc, procs,
                   startvars, since_probe, purevars, othervars>>

\* lines 761-763: the final probe
FinalProbe ==
    /\ pc = "final_probe"
    /\ \E ok \in BOOLEAN :
         /\ ok \/ (ProbeAudience /\ FailedProbes < MaxProbeFailures)
         /\ probes' = IF ProbeAudience
                      THEN send_test_email(probes, session_id, i, sent_count,
                                           failed_count, TRUE, ok)
                      ELSE probes
    /\ since_probe' = IF ProbeAudience THEN 0 ELSE since_probe
    /\ pc' = "show"
    /\ event' = "final_probe"
    /\ UNCHANGED <<cfgvars, dbvars, cached_position, handler, locals, pauses,
                   run_sub, prev_sub, run_end, prev_end, sig_pc, procs,
                   startvars, faultvars, purevars, othervars>>

\* line 766: show_session_stats, then send_bulk_emails returns; the SIGINT
\* handler stays installed
Return ==
    /\ pc = "show"
    /\ pc' = "idle"
    /\ run_end' = "completed"
    /\ event' = "return"
    /\ UNCHANGED <<cfgvars, dbvars, cached_position, handler, locals, probes,
                   pauses, run_sub, prev_sub, prev_end, sig_pc, procs,
                   startvars, auxvars>>

\* main() returns and the process ends
ProcessExit ==
    /\ pc = "idle"
    /\ pc' = "none"
    /\ event' = "exit"
    /\ UNCHANGED <<cfgvars, dbvars, cached_position, handler, locals,
                   histvars, sig_pc, procs,
                   startvars, auxvars>>

\* signal_handler saving the position the run started from, as a closure
\* that captured current_position by value would
signal_handler_stale ==
    /\ handler
    /\ pc \in RunPcs \cup {"idle"}
    /\ last_position' = update_list_position(start_position)
    /\ sessions' = update_session_stats(sessions, session_id, sent_count,
                                        failed_count, "INTERRUPTED")
    /\ sig_pc' = pc
    /\ run_end' = IF pc \in RunPcs THEN "sigint" ELSE run_end
    /\ pc' = "none"
    /\ event' = "sigint"
    /\ UNCHANGED <<cfgvars, email_logs, cached_position, handler, locals,
                   probes, pauses, run_sub, prev_sub, prev_end, procs,
                   startvars, auxvars>>

\* signal_handler, lines 707-712, run when SIGINT is delivered: it reads the
\* closure's current_position, sent_count, failed_count and exits
signal_handler ==
    /\ handler
    /\ pc \in RunPcs \cup {"idle"}
    /\ last_position' = update_list_position(current_position)
    /\ sessions' = update_session_stats(sessions, session_id, sent_count,
                                        failed_count, "INTERRUPTED")
    /\ sig_pc' = pc
    /\ run_end' = IF pc \in RunPcs THEN "sigint" ELSE run_end
    /\ pc' = "none"
    /\ event' = "sigint"
    /\ UNCHANGED <<cfgvars, email_logs, cached_position, handler, locals,
                   probes, pauses, run_sub, prev_sub, prev_end, procs,
                   startvars, auxvars>>

\* the process is killed (SIGKILL, power loss): nothing more is written
Crash ==
    /\ pc # "none"
    /\ run_end' = IF pc \in RunPcs THEN "kill" ELSE run_end
    /\ pc' = "none"
    /\ event' = "kill"
    /\ UNCHANGED <<cfgvars, dbvars, cached_position, handler, locals, probes,
                   pauses, run_sub, prev_sub, prev_end, sig_pc, procs,
                   startvars, auxvars>>

Next ==
    \/ EmailManager_init
    \/ \E lid \in {0, ListId, ListId + 1}, name \in ListNames,
          limit \in Limits, res \in BOOLEAN :
            main_send(lid, name, limit, res)
    \/ IterBegin
    \/ Submit
    \/ LogWrite
    \/ Count
    \/ Checkpoint
    \/ PauseProbe
    \/ PauseWait
    \/ Delay
    \/ FinalPosition
    \/ FinalStats
    \/ FinalProbe
    \/ Return
    \/ ProcessExit
    \/ signal_handler
    \/ Crash

Spec == Init /\ [][Next]_vars

\* ------------------------------------------- one process, as main() runs it
RECURSIVE FirstValid(_, _, _)
\* the first c recipients of the file from line n on
FirstValid(f, n, c) ==
    IF c = 0 \/ n >= Len(f) THEN <<>>
    ELSE IF IsValid(f[n + 1]) THEN <<n>> \o FirstValid(f, n + 1, c - 1)
         ELSE FirstValid(f, n + 1, c)

\* the probes of an earlier run of c recipients, all sent successfully
EarlierProbes(c) ==
    LET np == IF pause_after > 0 THEN (c - 1) \div pause_after ELSE 0
    IN  IF test_email_recipients = 0 THEN <<>>
        ELSE [n \in 1..(np + 1) |->
                IF n <= np
                THEN [session_id |-> 1, at |-> n * pause_after,
                      sent |-> n * pause_after, failed |-> 0,
                      is_final |-> FALSE, to |-> test_email_recipients,
                      ok |-> TRUE]
                ELSE [session_id |-> 1, at |-> c, sent |-> c, failed |-> 0,
                      is_final |-> TRUE, to |-> test_email_recipients,
                      ok |-> TRUE]]

\* main() has constructed the EmailManager (lines 1093, 41-57).  The database
\* is fresh (c = 0) or is the one an earlier process left after
\* "send --no-resume --max c" completed with every recipient accepted.
MainStartOn(F) ==
    /\ file \in F
    /\ total_emails = CountValid(file)
    /\ pause_after \in PauseAfterValues
    /\ test_interval \in TestIntervals
    /\ enable_test_emails = TRUE
    /\ test_email_recipients \in TestRecipientCounts
    /\ pause_duration \in PauseDurations
    /\ delay_between_emails \in Delays
    /\ \E c \in 0..CountValid(file) :
          LET done == FirstValid(file, 0, c)
          IN  /\ last_position = c
              /\ sessions = IF c = 0 THEN <<>>
                            ELSE <<[status |-> "COMPLETED", sent_emails |-> c,
                                    failed_emails |-> 0, total_emails |-> 0,
                                    end_time |-> TRUE]>>
              /\ email_logs = [n \in 1..c |->
                                 LogRow(1, done[n], "SUCCESS", "none")]
              /\ cached_position = c
              /\ probes = IF c = 0 THEN <<>> ELSE EarlierProbes(c)
              /\ pauses = {k \in 1..(c - 1) : pause_after > 0
                                               /\ k % pause_after = 0}
              /\ run_sub = Range(done)
              /\ run_end = IF c = 0 THEN "none" ELSE "completed"
              /\ procs = IF c = 0 THEN 1 ELSE 2
    /\ pc = "idle"
    /\ handler = FALSE
    /\ session_id = 0
    /\ resume = TRUE
    /\ max_emails = 0
    /\ start_position = 0
    /\ emails = <<>>
    /\ i = 0
    /\ sent_count = 0
    /\ failed_count = 0
    /\ current_position = 0
    /\ result = "none"
    /\ prev_sub = {}
    /\ prev_end = "none"
    /\ run_start = 0
    /\ prev_start = 0
    /\ sig_pc = "none"
    /\ event = "init_manager"
    /\ since_probe = 0
    /\ store_failed = FALSE
    /\ call = NoCall
    /\ ret = NoCall
    /\ pools = load_pools(NoPools)
    /\ OtherIdle

MainStart == MainStartOn(FileSet)

\* the store answers every write
InitMain == MainStart /\ store_budget = 0

\* the same process with a store of which some writes fail (a locked or
\* full database)
InitFault == MainStart /\ store_budget = MaxStoreFaults

\* main(), lines 1095-1106: one send command per process
NextMain ==
    \/ \E lid \in {0, ListId, ListId + 1}, name \in ListNames,
          limit \in Limits, res \in BOOLEAN :
            ~handler /\ main_send(lid, name, limit, res)
    \/ IterBegin
    \/ Submit
    \/ LogWrite
    \/ Count
    \/ Checkpoint
    \/ PauseProbe
    \/ PauseWait
    \/ Delay
    \/ FinalPosition
    \/ FinalStats
    \/ FinalProbe
    \/ Return
    \/ ProcessExit
    \/ signal_handler
    \/ Crash

SpecMain == InitMain /\ [][NextMain]_vars

SpecFault == InitFault /\ [][NextMain]_vars

\* ------------------------------------ a run that nothing interrupts
\* the statements of send_bulk_emails from the loop to its return: each one
\* returns when sendmail returns and the sleeps are finite
RunStep ==
    \/ IterBegin
    \/ Submit
    \/ LogWrite
    \/ Count
    \/ Checkpoint
    \/ PauseProbe
    \/ PauseWait
    \/ Delay
    \/ FinalPosition
    \/ FinalStats
    \/ FinalProbe
    \/ Return

\* NextMain without SIGINT and without a kill
NextRun ==
    \/ \E lid \in {0, ListId, ListId + 1}, name \in ListNames,
          limit \in Limits, res \in BOOLEAN :
            ~handler /\ main_send(lid, name, limit, res)
    \/ RunStep
    \/ ProcessExit

\* every line of the list file is a recipient; the store answers every
\* write
InitRun ==
    /\ MainStartOn({f \in FileSet : CountValid(f) = Len(f)})
    /\ store_budget = 0

\* the interpreter runs the next statement of a run that has one
SpecRun == InitRun /\ [][NextRun]_vars /\ WF_vars(RunStep)

\* ------------------------------------------------------ the test command
\* the session_id main() gives send_email for "test": the literal
\* "test_session".  Keys of sessions are positive here (8 hexadecimal digits
\* in the source, line 592), so 0 stands for the literal
TestSession == 0

\* args.email or "test@localhost": an address of the command line, no line
\* of the list file
TestEmail == 0 - 1

\* whether SQLite enforces FOREIGN KEY clauses: off unless the library was
\* built with it on, the program sets no PRAGMA
ForeignKeys == {FALSE, TRUE}

\* main(), lines 1132-1145, then the end of main(): send_email(test_email,
\* template, subject, from_line, "test_session").  With foreign keys
\* enforced both INSERTs of send_email raise and no row is stored.
main_test ==
    /\ pc = "idle"
    /\ ~handler
    /\ \E out \in Outcomes, fk \in ForeignKeys :
         /\ out = "SUCCESS" \/ FailedLogs < MaxFailures
         /\ email_logs' =
              IF fk THEN email_logs
              ELSE Append(email_logs,
                          IF out = "EXCEPTION"
                          THEN ExceptRow(TestSession, TestEmail)
                          ELSE TryRow(TestSession, TestEmail, out))
    /\ pc' = "none"
    /\ event' = "test"
    /\ UNCHANGED <<cfgvars, last_position, sessions, cached_position, handler,
                   locals, histvars, startvars, sig_pc, procs, auxvars>>

NextTest ==
    \/ NextRun
    \/ main_test

SpecTest == InitRun /\ [][NextTest]_vars

\* ------------------------------------------ a list longer than one batch
\* a recipient file of LongLines addresses
LongFile == [k \in 1..LongLines |-> "addr"]

\* one process on a fresh database with the long list and no probe audience
InitBatch ==
    /\ MainStartOn({LongFile})
    /\ store_budget = 0
    /\ sessions = <<>>
    /\ test_email_recipients = 0

SpecBatch == InitBatch /\ [][NextMain]_vars

\* ------------------------------- a second "send" process on the same list
\* While the first process is in its loop a second process is started:
\* EmailManager() reads the cursor of the list from the database, then
\* send_bulk_emails(ListId, limit, resume=True) runs start_session (INSERT
\* INTO sessions; nothing is looked up about running sessions) and takes
\* its slice from that cursor
OtherStart(limit) ==
    /\ other_pc = "none"
    /\ pc \in LoopPcs
    /\ sessions' = Append(sessions, NewSession)
    /\ other_session' = Len(sessions) + 1
    /\ other_start' = last_position
    /\ other_emails' = get_emails_from_list(file, last_position, limit)
    /\ other_i' = 0
    /\ other_pc' = IF get_emails_from_list(file, last_position, limit) = <<>>
                   THEN "done" ELSE "loop"
    /\ event' = "other_start"
    /\ UNCHANGED <<cfgvars, last_position, email_logs, pc, cached_position,
                   handler, locals, histvars, startvars, sig_pc, procs,
                   since_probe, faultvars, purevars, other_sub>>

\* one iteration of the second process's loop, lines 718-731, with the
\* recipient accepted by sendmail
OtherSend ==
    /\ other_pc = "loop"
    /\ other_i < Len(other_emails)
    /\ other_sub' = other_sub \cup {other_emails[other_i + 1]}
    /\ email_logs' = Append(email_logs,
                            LogRow(other_session, other_emails[other_i + 1],
                                   "SUCCESS", "none"))
    /\ other_i' = other_i + 1
    /\ event' = "other_send"
    /\ UNCHANGED <<cfgvars, last_position, sessions, pc, cached_position,
                   handler, locals, histvars, startvars, sig_pc, procs,
                   since_probe, faultvars, purevars, other_pc, other_session,
                   other_start, other_emails>>

\* lines 758-759 of the second process
OtherFinish ==
    /\ other_pc = "loop"
    /\ other_i = Len(other_emails)
    /\ last_position' = update_list_position(other_start + other_i)
    /\ sessions' = update_session_stats(sessions, other_session, other_i, 0,
                                        "COMPLETED")
    /\ other_pc' = "done"
    /\ event' = "other_finish"
    /\ UNCHANGED <<cfgvars, email_logs, pc, cached_position, handler, locals,
                   histvars, startvars, sig_pc, procs, since_probe, faultvars,
                   purevars, other_session, other_start, other_emails,
                   other_i, other_sub>>

NextTwo ==
    \/ NextMain
    \/ \E limit \in Limits : OtherStart(limit)
    \/ OtherSend
    \/ OtherFinish

\* both processes work on a database no run has used before, with no probe
\* audience configured
InitTwo == InitMain /\ sessions = <<>> /\ test_email_recipients = 0

SpecTwo == InitTwo /\ [][NextTwo]_vars

\* ------------------------------------- functions of EmailManager, called
\* on their own with arguments drawn from bounded sets
enginevars == <<cfgvars, dbvars, pc, cached_position, handler, locals,
                histvars, startvars, sig_pc, procs, event, since_probe,
                faultvars, othervars>>

\* a pool is the sequence of the 'weight' values of its items
Pools == UNION {[1..n -> 0..MaxWeight] : n \in 0..MaxPool}

\* config["rotation_mode"]: "weighted", or anything else ("random")
RotationModes == {"random", "weighted"}

RECURSIVE CumWeight(_, _)
\* "current" after the first k items of the loop of lines 487-490
CumWeight(items, k) ==
    IF k = 0 THEN 0 ELSE CumWeight(items, k - 1) + items[k]

\* "sum(item.get('weight', 1) for item in items)"
TotalWeight(items) == CumWeight(items, Len(items))

\* select_random_item(items): the 1-based index of the item returned, 0 for
\* None.  rand2 / DrawsPerUnit is the value of random.uniform(0,
\* total_weight), choice the index random.choice picks.
select_random_item(items, mode, rand2, choice) ==
    IF items = <<>> THEN 0
    ELSE LET hits == {k \in 1..Len(items) :
                        rand2 <= DrawsPerUnit * CumWeight(items, k)}
         IN  IF mode = "weighted" /\ hits # {}
             THEN CHOOSE k \in hits : \A h \in hits : k <= h
             ELSE choice

Call_select_random_item ==
    /\ call = NoCall
    /\ \E items \in Pools, mode \in RotationModes :
         \E rand2 \in 0..(DrawsPerUnit * TotalWeight(items)),
            choice \in 1..(IF items = <<>> THEN 1 ELSE Len(items)) :
            /\ call' = [fn |-> "select_random_item", items |-> items,
                        mode |-> mode, rand2 |-> rand2, choice |-> choice]
            /\ ret' = [kind |-> "return",
                       value |-> select_random_item(items, mode, rand2,
                                                    choice)]
    /\ UNCHANGED <<enginevars, pools>>

\* the keys of "replacements" in the order the dict holds them (lines
\* 510-517); texts are sequences of tokens, a placeholder being one token
PlaceholderKeys == <<"{{email}}", "{{timestamp}}", "{{template_name}}",
                     "{{subject_text}}", "{{from_name}}", "{{from_email}}">>

\* tokens a template's content is made of
ContentTokens == {"text", "{{email}}", "{{timestamp}}", "{{from_email}}"}

Contents == UNION {[1..n -> ContentTokens] : n \in 0..MaxContentLen}

\* recipient addresses: what stands before the '@' may hold placeholders
Recipients ==
    {v \o <<"@x">> :
        v \in UNION {[1..n -> {"a", "{{timestamp}}", "{{from_email}}"}] :
                        n \in 1..MaxValueLen}}

\* values of from_line['email']
FromEmails == {<<"f@y">>, <<"{{email}}", "@y">>}

\* the values of "replacements": the recipient, the time, the names of the
\* combination and the sender address
Replacements(recipient, from_email) ==
    [key \in Range(PlaceholderKeys) |->
        CASE key = "{{email}}" -> recipient
          [] key = "{{timestamp}}" -> <<"NOW">>
          [] key = "{{template_name}}" -> <<"TN">>
          [] key = "{{subject_text}}" -> <<"SUBJ">>
          [] key = "{{from_name}}" -> <<"FN">>
          [] key = "{{from_email}}" -> from_email]

RECURSIVE str_replace(_, _, _)
\* content.replace(key, value)
str_replace(content, key, value) ==
    IF content = <<>> THEN <<>>
    ELSE (IF Head(content) = key THEN value ELSE <<Head(content)>>)
         \o str_replace(Tail(content), key, value)

RECURSIVE ReplaceAll(_, _, _)
\* "for key, value in replacements.items(): content = content.replace(key,
\* value)", from the k-th key on
ReplaceAll(content, values, k) ==
    IF k > Len(PlaceholderKeys) THEN content
    ELSE ReplaceAll(str_replace(content, PlaceholderKeys[k],
                                values[PlaceholderKeys[k]]),
                    values, k + 1)

\* create_email_content: the body of the message
create_email_content(content, recipient, from_email) ==
    ReplaceAll(content, Replacements(recipient, from_email), 1)

Call_create_email_content ==
    /\ call = NoCall
    /\ \E content \in Contents, recipient \in Recipients,
          from_email \in FromEmails :
            /\ call' = [fn |-> "create_email_content", content |-> content,
                        recipient |-> recipient, from_email |-> from_email]
            /\ ret' = [kind |-> "return",
                       value |-> create_email_content(content, recipient,
                                                      from_email)]
    /\ UNCHANGED <<enginevars, pools>>

\* the characters of a line of a recipient file (the newline left out)
Chars == {" ", "a", "@"}

TextLines == UNION {[1..n -> Chars] : n \in 0..MaxLineLen}

TextFiles == UNION {[1..n -> TextLines] : n \in 0..MaxTextLines}

RECURSIVE lstrip(_)
lstrip(line) ==
    IF line # <<>> /\ Head(line) = " " THEN lstrip(Tail(line)) ELSE line

RECURSIVE rstrip(_)
rstrip(line) ==
    IF line # <<>> /\ line[Len(line)] = " "
    THEN rstrip(SubSeq(line, 1, Len(line) - 1))
    ELSE line

\* strip keeping the spaces at the end of the line
strip_left(line) == lstrip(line)

\* line.strip()
strip(line) == rstrip(lstrip(line))

\* "if email and '@' in email"
IsRecipient(email) == email # <<>> /\ "@" \in Range(email)

RECURSIVE ScanText(_, _, _, _, _)
\* the loop of get_emails_from_list on the text of the file
ScanText(lines, n, start, limit, acc) ==
    IF n >= Len(lines) THEN acc
    ELSE IF n < start THEN ScanText(lines, n + 1, start, limit, acc)
    ELSE LET email == strip(lines[n + 1])
             acc2 == IF IsRecipient(email) THEN Append(acc, email) ELSE acc
         IN  IF limit # 0 /\ Len(acc2) >= limit THEN acc2
             ELSE ScanText(lines, n + 1, start, limit, acc2)

\* get_emails_from_list returning the addresses themselves
get_emails_from_list_text(lines, start, limit) ==
    ScanText(lines, 0, start, limit, <<>>)

\* add_email_list, lines 909-914: the number stored as total_emails
add_email_list(lines) ==
    Cardinality({k \in 1..Len(lines) : /\ strip(lines[k]) # <<>>
                                       /\ "@" \in Range(strip(lines[k]))})

\* "add --email-list" of a file (add_email_list), then
\* get_emails_from_list on it
Call_get_emails_from_list ==
    /\ call = NoCall
    /\ \E lines \in TextFiles, start \in 0..1, limit \in Limits :
            /\ call' = [fn |-> "get_emails_from_list", lines |-> lines,
                        start |-> start, limit |-> limit]
            /\ ret' = [kind |-> "return",
                       value |-> get_emails_from_list_text(lines, start,
                                                           limit),
                       total_emails |-> add_email_list(lines)]
    /\ UNCHANGED <<enginevars, pools>>

\* no process runs; the functions are called on an empty list file
InitPure ==
    /\ Init
    /\ file = <<>> /\ pause_after = 0 /\ test_email_recipients = 0

NextPure ==
    \/ Call_select_random_item
    \/ Call_create_email_content
    \/ Call_get_emails_from_list

SpecPure == InitPure /\ [][NextPure]_vars

\* ------------------------------------ the variant pools and start_session
\* what add_template, add_subject, add_from_line and start_session leave
\* alone
poolframe == <<cfgvars, pc, cached_position, handler, locals, histvars,
               startvars, sig_pc, procs, since_probe, faultvars, call, ret,
               othervars>>

\* add_template(name, content, weight): INSERT, commit, load_templates
add_template ==
    /\ pc = "idle"
    /\ pools.adds < MaxAdds
    /\ LET t == load_templates(Inserted(pools.db.templates, 1))
       IN  pools' = [pools EXCEPT !.db.templates = t.rows,
                                  !.templates = t.items,
                                  !.adds = @ + 1]
    /\ event' = "add_template"
    /\ UNCHANGED <<poolframe, dbvars>>

\* add_subject(text, weight): INSERT, commit, load_subjects
add_subject ==
    /\ pc = "idle"
    /\ pools.adds < MaxAdds
    /\ LET s == load_subjects(Inserted(pools.db.subjects, 1))
       IN  pools' = [pools EXCEPT !.db.subjects = s.rows,
                                  !.subjects = s.items,
                                  !.adds = @ + 1]
    /\ event' = "add_subject"
    /\ UNCHANGED <<poolframe, dbvars>>

\* add_from_line(name, email, weight): INSERT, commit, load_from_lines
add_from_line ==
    /\ pc = "idle"
    /\ pools.adds < MaxAdds
    /\ LET f == load_from_lines(Inserted(pools.db.from_lines, 1))
       IN  pools' = [pools EXCEPT !.db.from_lines = f.rows,
                                  !.from_lines = f.items,
                                  !.adds = @ + 1]
    /\ event' = "add_from_line"
    /\ UNCHANGED <<poolframe, dbvars>>

\* start_session(list_id), lines 590-624, when it finds the list: the
\* INSERT INTO sessions
start_session(lid) ==
    /\ pc = "idle"
    /\ Len(sessions) < MaxSessions
    /\ start_session_finds(lid)
    /\ sessions' = Append(sessions, NewSession)
    /\ event' = "start_session"
    /\ UNCHANGED <<poolframe, last_position, email_logs, pools>>

\* no process yet; the variant tables hold any rows, active or not
InitPools ==
    /\ InitOn([PoolNames -> Tables])
    /\ file = <<>> /\ pause_after = 0 /\ test_email_recipients = 0

NextPools ==
    \/ EmailManager_init
    \/ add_template
    \/ add_subject
    \/ add_from_line
    \/ \E lid \in {0, ListId} : start_session(lid)
    \/ ProcessExit

SpecPools == InitPools /\ [][NextPools]_vars

TypeOK ==
    /\ last_position \in Nat
    /\ pc \in RunPcs \cup {"none", "idle"}
    /\ i \in 0..Len(emails)

\* ----------------------------------------------------------------- claims
\* 0-based indices of the lines that are recipients
ValidLines == {k \in 0..(Len(file) - 1) : IsValid(file[k + 1])}

\* lines for which email_logs holds a row
Logged == {email_logs[n].email : n \in 1..Len(email_logs)}

\* C1 (as claimed): a run with resume=True and no limit that follows an
\* interrupted run processes every recipient the interrupted run left
\* unprocessed, and at most one recipient it had already processed.
ResumeExactness ==
    (pc \in LoopPcs /\ resume /\ max_emails = 0 /\ prev_end = "sigint") =>
        LET todo == {k \in ValidLines : k >= prev_start /\ k \notin prev_sub}
        IN  /\ todo \subseteq Range(emails)
            /\ Cardinality(Range(emails) \ todo) <= 1

\* C2: when SIGINT arrives in the send loop or in a pause wait, the process
\* exits with last_position, the session's counters and the status
\* INTERRUPTED persisted.
Cancellation ==
    (pc = "none" /\ event = "sigint" /\ sig_pc \in LoopPcs) =>
        /\ last_position = current_position
        /\ sessions[session_id].sent_emails = sent_count
        /\ sessions[session_id].failed_emails = failed_count
        /\ sessions[session_id].status = "INTERRUPTED"

\* a run interrupted during a pause wait, after it processed recipients
CancellationWitness ==
    /\ pc = "none" /\ event = "sigint" /\ sig_pc = "pausewait"
    /\ sent_count + failed_count >= 1
    /\ last_position = start_position + sent_count + failed_count
    /\ sessions[session_id].status = "INTERRUPTED"

\* C3 (as claimed): every recipient below the persisted cursor has a log
\* row, at whatever point the interrupt handler ran.
LogBeforeCursor ==
    \A k \in ValidLines : k < last_position => k \in Logged

\* C4 (as claimed): a resumed run that follows a killed run starts at the
\* committed cursor and its slice holds at most one recipient the killed
\* run had already submitted.
CrashTolerance ==
    (pc \in LoopPcs /\ resume /\ prev_end = "kill") =>
        /\ start_position = last_position
        /\ Cardinality(Range(emails) \cap prev_sub) <= 1

\* C5 (as claimed): no step decreases the persisted cursor.
CursorMonotone == [][last_position' >= last_position]_vars

\* C6 (as claimed): the persisted cursor stays within 0..total_emails.
CursorBounds == 0 <= last_position /\ last_position <= total_emails

\* C7 (as claimed): no step changes the status of a session whose status is
\* COMPLETED, INTERRUPTED or FAILED.
TerminalNeverReopened ==
    [][\A s \in 1..Len(sessions) :
          sessions[s].status \in Terminal =>
              sessions'[s].status = sessions[s].status]_vars

\* C8 (as claimed): a run with resume=True starts at the position last
\* committed for the list.
LoadCursor ==
    (event = "start_run" /\ resume) => start_position = last_position

\* C9: after the pause test of the (i+1)th recipient the run has paused
\* exactly at the multiples of pause_after below the slice length, and at
\* the end of the run exactly at all of them; pause_after = 0 never pauses.
PauseCadence ==
    /\ pc \in {"probe", "pausewait", "delay"} =>
          pauses = {k \in 1..(i + 1) : /\ pause_after > 0
                                       /\ k % pause_after = 0
                                       /\ k < Len(emails)}
    /\ pc \in FinalPcs =>
          pauses = {k \in 1..(Len(emails) - 1) : /\ pause_after > 0
                                                 /\ k % pause_after = 0}

\* a finished run of three recipients with pause_after = 1: pauses after the
\* first and the second, none after the third
PauseCadenceWitness ==
    /\ pc = "show" /\ pause_after = 1 /\ Len(emails) = 3
    /\ pauses = {1, 2}

\* C10 (as claimed): when the processed count i+1 is a positive multiple of
\* test_interval and a probe audience is configured, a periodic probe has
\* been sent at that count before the loop moves on.
ProbeCadence ==
    ( /\ pc = "delay"
      /\ enable_test_emails /\ test_email_recipients > 0
      /\ (i + 1) % test_interval = 0 ) =>
        \E n \in 1..Len(probes) :
            /\ probes[n].session_id = session_id
            /\ probes[n].at = i + 1
            /\ ~probes[n].is_final

\* rows of email_logs of session sid with the given status
SessionLogs(sid, status) ==
    {n \in 1..Len(email_logs) : /\ email_logs[n].session_id = sid
                                /\ email_logs[n].status = status}

\* C13: after a recipient whose submission failed (non-zero return code or
\* exception) was counted, email_logs holds exactly one row for it in this
\* session, FAILED with an error message, the failure raised failed_count
\* and not sent_count (the counters are the numbers of FAILED and SUCCESS
\* rows of the session), and the run has moved on by exactly one recipient
\* per outcome; a recipient about to be logged has no row yet in this run.
TransportFailure ==
    /\ (pc \in {"stats", "probe", "pausewait", "delay"}
          /\ result # "SUCCESS") =>
          LET rows == {n \in 1..Len(email_logs) :
                         /\ email_logs[n].session_id = session_id
                         /\ email_logs[n].email = emails[i + 1]}
          IN  /\ Cardinality(rows) = 1
              /\ \A n \in rows : /\ email_logs[n].status = "FAILED"
                                  /\ email_logs[n].error_message # "none"
              /\ failed_count =
                     Cardinality(SessionLogs(session_id, "FAILED"))
              /\ sent_count =
                     Cardinality(SessionLogs(session_id, "SUCCESS"))
              /\ sent_count + failed_count = i + 1
    /\ pc = "log" =>
          \A n \in 1..Len(email_logs) :
              ~(/\ email_logs[n].session_id = session_id
                /\ email_logs[n].email = emails[i + 1])

\* the first recipient was refused by sendmail and the run has submitted
\* the second one
TransportFailureWitness ==
    /\ pc = "log" /\ i = 1
    /\ failed_count = 1 /\ sent_count = 0
    /\ email_logs[Len(email_logs)] =
          LogRow(session_id, emails[1], "FAILED", "stderr")
    /\ emails[2] \in run_sub

\* C14 (as claimed): once a store write of the run has failed the process
\* has ended with the error: it submits no further recipient.
PersistenceFatal == store_failed => pc = "none"

\* the ways send_bulk_emails returns without a recipient list or recipients
ConfigErrors == {"no_session", "list_not_found", "no_emails"}

\* C15 (as claimed): a send_bulk_emails call that resolves no list or no
\* recipients either leaves the sessions table as it was or adds one row
\* with status FAILED.
ConfigErrorClean ==
    [][event' \in ConfigErrors =>
          \/ sessions' = sessions
          \/ /\ Len(sessions') = Len(sessions) + 1
             /\ sessions'[Len(sessions')].status = "FAILED"]_vars

\* C20 (as claimed): no recipient is submitted both by a run and by a
\* second run started on the list while the first was in progress.
OneDispatchPerList == run_sub \cap other_sub = {}

\* C16 (as claimed): select_random_item on a pool without items does not
\* return a value, it raises an error.
EmptyPoolRejection ==
    (call.fn = "select_random_item" /\ call.items = <<>>) =>
        ret.kind = "raise"

\* C17 (as claimed): in weighted mode, with weights of at least 1 and a draw
\* d in [0, total weight), select_random_item returns the first item whose
\* cumulative weight exceeds d.
WeightedSelection ==
    ( /\ call.fn = "select_random_item" /\ call.mode = "weighted"
      /\ call.items # <<>>
      /\ \A k \in 1..Len(call.items) : call.items[k] >= 1
      /\ call.rand2 < DrawsPerUnit * TotalWeight(call.items) ) =>
        /\ ret.value \in 1..Len(call.items)
        /\ DrawsPerUnit * CumWeight(call.items, ret.value) > call.rand2
        /\ \A k \in 1..(ret.value - 1) :
               DrawsPerUnit * CumWeight(call.items, k) <= call.rand2

RECURSIVE SinglePass(_, _)
\* every placeholder of the content replaced by its value, the values
\* themselves left as they are
SinglePass(content, values) ==
    IF content = <<>> THEN <<>>
    ELSE (IF Head(content) \in DOMAIN values THEN values[Head(content)]
          ELSE <<Head(content)>>)
         \o SinglePass(Tail(content), values)

\* C18 (as claimed): create_email_content gives the content with each
\* placeholder replaced once; a value put in is not scanned again.
SinglePassRendering ==
    call.fn = "create_email_content" =>
        ret.value = SinglePass(call.content,
                               Replacements(call.recipient, call.from_email))

\* e is line l without the spaces at its two ends
IsTrimOf(e, l) ==
    /\ e # <<>> /\ e[1] # " " /\ e[Len(e)] # " "
    /\ \E a \in 0..Len(l) :
          /\ a + Len(e) <= Len(l)
          /\ SubSeq(l, a + 1, a + Len(e)) = e
          /\ \A j \in 1..Len(l) :
                (j <= a \/ j > a + Len(e)) => l[j] = " "

\* the 1-based numbers of the lines that hold an '@', in file order
AtLines(lines) ==
    LET HasAt(k) == \E j \in 1..Len(lines[k]) : lines[k][j] = "@"
    IN  SelectSeq([k \in 1..Len(lines) |-> k], HasAt)

\* C19: from position 0 with no limit get_emails_from_list returns one
\* address per line that holds an '@', in file order, each being its line
\* without surrounding blanks; lines without '@' (empty ones included) give
\* nothing, and add_email_list counts exactly the returned addresses.
InvalidLineFiltering ==
    ( /\ call.fn = "get_emails_from_list"
      /\ call.start = 0 /\ call.limit = 0 ) =>
        /\ Len(ret.value) = Len(AtLines(call.lines))
        /\ \A n \in 1..Len(ret.value) :
               IsTrimOf(ret.value[n], call.lines[AtLines(call.lines)[n]])
        /\ ret.total_emails = Len(ret.value)

\* the file " @", "a ": the first line is returned trimmed, the second is
\* skipped
InvalidLineFilteringWitness ==
    /\ call.fn = "get_emails_from_list"
    /\ call.start = 0 /\ call.limit = 0
    /\ Len(call.lines) = 2
    /\ call.lines[1] = <<" ", "@">> /\ call.lines[2] = <<"a", " ">>
    /\ ret.value = << <<"@">> >>
    /\ ret.total_emails = 1

\* C21 (as claimed): a send command given --list-name with the name of the
\* list and no --list-id, on a list that has recipients left for it, starts
\* the send loop on that list.
ListNameDispatch ==
    [][\A limit \in Limits, res \in BOOLEAN :
          ( /\ ~handler
            /\ main_send(0, ListName, limit, res)
            /\ get_emails_from_list(file,
                                    IF res THEN cached_position ELSE 0,
                                    limit) # <<>> ) =>
              pc' = "iter"]_vars

\* C22 (as claimed): when the run blocks in a pause, last_position is the
\* index of the next unsent recipient and the session row holds the
\* counters of the run.
PauseCheckpointFirst ==
    pc = "pausewait" =>
        /\ last_position = start_position + i + 1
        /\ sessions[session_id].sent_emails = sent_count
        /\ sessions[session_id].failed_emails = failed_count

\* C23: from the moment the final probe is about to be sent, last_position
\* is start_position plus the number of recipients processed and the
\* session row is COMPLETED with the final counters; a final probe of the
\* run exists only after that.
CompletionOrdering ==
    /\ pc \in {"final_probe", "show"} =>
          /\ sent_count + failed_count = Len(emails)
          /\ last_position = start_position + sent_count + failed_count
          /\ sessions[session_id].status = "COMPLETED"
          /\ sessions[session_id].sent_emails = sent_count
          /\ sessions[session_id].failed_emails = failed_count
    /\ (pc \in RunPcs /\ \E n \in 1..Len(probes) :
                             /\ probes[n].session_id = session_id
                             /\ probes[n].is_final) => pc = "show"

\* a resumed run of two recipients, one refused, that has sent its final
\* probe
CompletionOrderingWitness ==
    /\ pc = "show" /\ start_position = 1 /\ Len(emails) = 2
    /\ failed_count = 1 /\ sent_count = 1
    /\ probes # <<>> /\ probes[Len(probes)].is_final
    /\ probes[Len(probes)].session_id = session_id
    /\ last_position = 3
    /\ sessions[session_id].status = "COMPLETED"

\* C29 (as claimed): a resumed run that follows a completed run submits no
\* recipient the earlier run submitted and skips no recipient the earlier
\* run left.
CursorFileAgree ==
    (pc \in RunPcs /\ resume /\ prev_end = "completed") =>
        /\ Range(emails) \cap prev_sub = {}
        /\ \A k \in ValidLines : k < emails[1] => k \in prev_sub

\* C30 (as claimed): after the interrupt handler ran in the send loop, the
\* session's sent_emails + failed_emails equals last_position minus the
\* run's start_position.
CountersMatchCursor ==
    (pc = "none" /\ event = "sigint" /\ sig_pc \in LoopPcs) =>
        sessions[session_id].sent_emails + sessions[session_id].failed_emails
            = last_position - start_position

\* C26 (as claimed): once send_email has returned for a recipient,
\* email_logs holds exactly one row for it in the session of the run.
OneLogPerRecipient ==
    pc \in {"count", "stats", "probe", "pausewait", "delay"} =>
        Cardinality({n \in 1..Len(email_logs) :
                       /\ email_logs[n].session_id = session_id
                       /\ email_logs[n].email = emails[i + 1]}) = 1

\* C27 (as claimed): in weighted mode, from a pool that holds a variant of
\* positive weight, select_random_item never returns a variant of weight 0.
ZeroWeightNeverSelected ==
    ( /\ call.fn = "select_random_item" /\ call.mode = "weighted"
      /\ \E k \in 1..Len(call.items) : call.items[k] > 0 ) =>
        call.items[ret.value] # 0

\* C24: at every iteration boundary of the send loop (the top of the loop,
\* the pause and the delay that end an iteration) the counters of the
\* session row are at most CheckpointEvery - 1 = 9 processed recipients
\* behind sent_count + failed_count, and never ahead.
CheckpointBatching ==
    pc \in {"iter", "probe", "pausewait", "delay"} =>
        LET persisted == sessions[session_id].sent_emails
                           + sessions[session_id].failed_emails
            lag == (sent_count + failed_count) - persisted
        IN  0 <= lag /\ lag <= CheckpointEvery - 1

\* the twenty-first recipient has been processed: the row holds the
\* counters of the twentieth, status RUNNING
CheckpointBatchingWitness ==
    /\ pc = "delay" /\ i = 20
    /\ sent_count + failed_count = 21
    /\ sessions[session_id].status = "RUNNING"
    /\ sessions[session_id].sent_emails
         + sessions[session_id].failed_emails = 20
    /\ failed_count = 1

\* C25 (as claimed): a session whose status is STARTED or RUNNING has no
\* end_time.
EndTimeNullUntilTerminal ==
    \A s \in 1..Len(sessions) :
        sessions[s].status \in {"STARTED", "RUNNING"} =>
            ~sessions[s].end_time

\* C28: whenever start_session has created a session, self.templates,
\* self.subjects and self.from_lines each hold at least one variant, and
\* every variant they hold is an active row of its table.
PoolsNeverEmpty ==
    event = "start_session" =>
        /\ \A p \in PoolNames : pools[p] # <<>>
        /\ \A p \in PoolNames : \A k \in 1..Len(pools[p]) :
              /\ pools[p][k] \in 1..Len(pools.db[p])
              /\ pools.db[p][pools[p][k]]

\* a session started by the second process on a database whose only
\* template was inactive and whose subjects table was empty, after an
\* add_from_line
PoolsNeverEmptyWitness ==
    /\ event = "start_session" /\ sessions # <<>> /\ procs = 2
    /\ pools.db.templates # <<>> /\ ~pools.db.templates[1]
    /\ Len(pools.templates) = DefaultTemplates
    /\ Len(pools.db.subjects) = DefaultSubjects
    /\ pools.adds >= 1
    /\ Len(pools.from_lines) >= 2

\* send_bulk_emails has returned after its loop
RunCompleted ==
    /\ pc = "idle" /\ event = "return"
    /\ sessions[session_id].status = "COMPLETED"
    /\ sessions[session_id].sent_emails
         + sessions[session_id].failed_emails = Len(emails)
    /\ last_position = start_position + Len(emails)

\* C31: a run of send_bulk_emails over a non-empty slice that no signal
\* interrupts, whose transport calls return and whose sleeps end,
\* eventually returns with the session COMPLETED, sent_emails +
\* failed_emails equal to the length of the slice and the cursor equal to
\* start_position plus the length of the slice.
RunTermination == (pc \in LoopPcs /\ emails # <<>>) ~> RunCompleted

\* a resumed run of two recipients, one refused by the transport, with a
\* pause, has returned
RunTerminationWitness ==
    /\ RunCompleted
    /\ start_position = 1 /\ Len(emails) = 2
    /\ failed_count = 1 /\ pauses # {}
    /\ last_position = 3

\* C32 (as claimed): the session_id of every row of email_logs is the key
\* of a row of sessions, whether the send loop or the test command wrote
\* the row.
LogReferentialIntegrity ==
    \A n \in 1..Len(email_logs) :
        email_logs[n].session_id \in 1..Len(sessions)

\* C33 (as claimed): when send_bulk_emails has completed a session, the
\* session's total_emails is the length of the processed slice and equals
\* sent_emails + failed_emails.
SessionTotals ==
    (pc = "idle" /\ event = "return"
       /\ sessions[session_id].status = "COMPLETED") =>
        /\ sessions[session_id].total_emails = Len(emails)
        /\ sessions[session_id].sent_emails
             + sessions[session_id].failed_emails
               = sessions[session_id].total_emails

\* the watchdog window of the probe scheduler, seconds (30 minutes)
WatchdogWindow == 1800

\* C11 (as claimed): an iteration that submits a recipient while a probe
\* audience is configured never finds more than the watchdog window elapsed
\* since the last probe (or the session start): the probe would have been
\* sent at the start of that iteration.
ProbeWatchdog ==
    (pc = "send" /\ ProbeAudience) => since_probe <= WatchdogWindow

\* C12: a step that sends a probe, accepted or refused by the transport,
\* leaves sent_count, failed_count, email_logs, the sessions rows and
\* last_position as they were.
ProbeFrame ==
    [][(event' \in {"pause_probe", "final_probe"} /\ probes' # probes) =>
          UNCHANGED <<sent_count, failed_count, email_logs, sessions,
                      last_position>>]_vars

\* a run that sent a refused pause probe and then an accepted final probe,
\* with its counters still those of its log rows
ProbeFrameWitness ==
    /\ event = "final_probe" /\ Len(probes) >= 2
    /\ probes[Len(probes)].ok /\ probes[Len(probes)].is_final
    /\ ~probes[Len(probes) - 1].ok /\ ~probes[Len(probes) - 1].is_final
    /\ probes[Len(probes) - 1].session_id = session_id
    /\ sent_count = Cardinality(SessionLogs(session_id, "SUCCESS"))
    /\ failed_count = Cardinality(SessionLogs(session_id, "FAILED"))
    /\ sent_count >= 2

====
